---- MODULE Spec2Model ----
(***************************************************************************)
(* Model of landscape/monitor/cpuusage.py: the CPUUsage monitor plugin.    *)
(*                                                                         *)
(* A tick (run) reads the first line of the stat file, computes the CPU    *)
(* usage ratio from the deltas against the persisted previous fields,      *)
(* persists the new fields, feeds a ratio to the accumulator and appends   *)
(* any completed step to _cpu_usage_points; send_message / exchange drain  *)
(* that list into a message for the broker.                                *)
(*                                                                         *)
(* Conventions.  Python's None is the empty tuple; a present value of a    *)
(* persisted key is a 1-tuple holding it (so a persisted empty list is     *)
(* <<<<>>>>, not None).  A ratio is the exact fraction <<used, divisor>>   *)
(* of the float division on line 117.  The stat line is the sequence of    *)
(* tokens that split(" ") yields once the trailing newline is removed.     *)
(* Indexes named as in the source are 0-based; sequences are 1-based.      *)
(***************************************************************************)
EXTENDS Integers, Sequences, FiniteSets

(* ------------------------------ bounds -------------------------------- *)

\* Largest value of one counter of the stat line.
MaxCounter == 1

\* Last timestamp at which a tick is taken when every line can be read.
MaxTime == 3

\* Last timestamp at which a tick is taken when only the lines of
\* WindowLines are read (long enough for steps to complete and be sent).
MaxWindowTime == 7

(* ------------------------- program constants -------------------------- *)

\* Number of counters of the cpu line (user .. guest nice).
NumFields == 10

\* Index of the idle counter among the fields (0-based).
IDLE == 3

\* Number of leading tokens dropped from the split line ("cpu" and "").
HEADER == 2

\* Width of one accumulator step (registry.step_size), in clock units.
step_size == 2

None == <<>>

Some(v) == <<v>>

(* --------------------------- the stat line ---------------------------- *)

\* The tokens of a cpu line carrying the given counters: "cpu", the empty
\* token between its two spaces, then one token per counter.
StatLine(counters) == <<"cpu", "">> \o counters

\* n counters, all 0 but the idle counter and one other.
OneBusy(n) ==
    { [k \in 1..n |-> IF k = IDLE + 1 THEN b ELSE IF k = i THEN a ELSE 0] :
        i \in 1..n, a \in 0..MaxCounter, b \in 0..MaxCounter }

\* n counters, all equal but the idle counter.
AllBusy(n) ==
    { [k \in 1..n |-> IF k = IDLE + 1 THEN b ELSE a] :
        a \in 0..MaxCounter, b \in 0..MaxCounter }

\* n equal counters.
Uniform(n) == { [k \in 1..n |-> c] : c \in 0..MaxCounter }

\* Well-formed samples: NumFields counters.
RawSamples == OneBusy(NumFields) \cup Uniform(NumFields)

\* Counters of lines that are not a 10-counter cpu line: lines of an older
\* kernel with fewer counters, a line with one counter more.
OddSamples ==
    { [k \in 1..n |-> c] : n \in {IDLE, IDLE + 1, NumFields + 1}, c \in 0..1 }

\* The empty first line of an empty file: "".split(" ") is [""].
EmptyLine == <<"">>

Lines == { StatLine(s) : s \in RawSamples \cup OddSamples } \cup { EmptyLine }

\* The lines read in the long runs: 10 counters of which the idle one is 0
\* or equal to the others, and a line of 3 counters.
WindowLines ==
    { StatLine(s) : s \in { x \in AllBusy(NumFields) : x[IDLE + 1] \in {0, x[1]} } }
        \cup { StatLine(<<0, 0, 0>>) }

\* What open()/readline() can produce: a line (ok) or an IOError.
ReadError == [ok |-> FALSE, stat |-> <<>>]

ReadOutcomes == { [ok |-> TRUE, stat |-> l] : l \in Lines } \cup { ReadError }

WindowReadOutcomes ==
    { [ok |-> TRUE, stat |-> l] : l \in WindowLines } \cup { ReadError }

(* ------------------------- _get_cpu_usage ----------------------------- *)

\* fields = stat.replace("\n", "").split(" ")[2:]
ParseFields(stat) == SubSeq(stat, HEADER + 1, Len(stat))

\* Variant: the system counter (index 2) taken for the idle one.
IsUsedIndex_System(i) == i # IDLE - 1

\* "Sum up all delta fields except idle": i != 3.
IsUsedIndex(i) == i # IDLE

\* Variant: the negative-delta check never fires.
IsReboot_Never(delta) == FALSE

\* Line 105: a negative delta means the counters restarted.
IsReboot(delta) == delta < 0

\* The for loop of lines 103-111, from index i on.  Ends with "done" (loop
\* exhausted), "reboot" (break on a negative delta) or "raised"
\* (previous_fields[i] out of range).
RECURSIVE DeltaLoop(_, _, _, _, _)
DeltaLoop(fields, previous_fields, i, delta_fields, used_delta) ==
    IF i >= Len(fields)
    THEN [exit |-> "done", delta_fields |-> delta_fields, used_delta |-> used_delta]
    ELSE IF i >= Len(previous_fields)
    THEN [exit |-> "raised", delta_fields |-> delta_fields, used_delta |-> used_delta]
    ELSE LET delta == fields[i + 1] - previous_fields[i + 1]
         IN  IF IsReboot(delta)
             THEN [exit |-> "reboot", delta_fields |-> delta_fields,
                   used_delta |-> used_delta]
             ELSE DeltaLoop(fields, previous_fields, i + 1,
                            Append(delta_fields, delta),
                            IF IsUsedIndex(i) THEN used_delta + delta
                                              ELSE used_delta)

\* Variant: a zero divisor reported as no usage instead of no result.
Ratio_ZeroUsage(used_delta, divisor) ==
    IF divisor # 0 THEN <<used_delta, divisor>> ELSE <<0, 1>>

\* Lines 115-117: the ratio as an exact fraction, None when the divisor is 0.
Ratio(used_delta, divisor) ==
    IF divisor # 0 THEN <<used_delta, divisor>> ELSE None

\* Line 122: result < 0 or result > 1 (the divisor is positive here, all
\* deltas being non-negative).
OutOfRange(result) ==
    \/ result[1] < 0
    \/ result[1] > result[2]

\* Lines 122-123.
SanityGuard(result) ==
    IF result # None /\ OutOfRange(result) THEN None ELSE result

\* Variant: the fields are not persisted when a reboot is detected.
PersistAfter_KeepOnReboot(branch, fields, previous) ==
    IF branch = "reboot" THEN previous ELSE Some(fields)

\* Variant: the fields are not persisted when there was no previous measure.
PersistAfter_SkipFirst(branch, fields, previous) ==
    IF branch = "first" THEN previous ELSE Some(fields)

\* Variant: the persisted measure is dropped when a reboot is detected.
PersistAfter_ForgetOnReboot(branch, fields, previous) ==
    IF branch = "reboot" THEN None ELSE Some(fields)

\* Variant: the fields are persisted only together with a ratio.
PersistAfter_OnlyWithRatio(branch, fields, previous) ==
    IF branch \in {"first", "ratio"} THEN Some(fields) ELSE previous

\* Line 124: what the persisted key holds after a completed computation that
\* took the given branch.
PersistAfter(branch, fields, previous) == Some(fields)

\* Variant: a failed read drops the persisted measure.
OnReadError_Forget(previous) ==
    [branch |-> "ioerror", result |-> None, persist |-> None, read |-> None]

\* Lines 80-83: the read failed; nothing is computed, nothing is persisted.
OnReadError(previous) ==
    [branch |-> "ioerror", result |-> None, persist |-> previous, read |-> None]

\* Lines 93-125 for a line that was read.  branch names the path taken:
\* "first" (no previous fields), "reboot", "zero" (divisor 0), "range"
\* (sanity guard fired), "ratio", or "raised" (IndexError: the method is left
\* before line 124 and the exception propagates out of run).
Compute(stat, previous) ==
    LET fields == ParseFields(stat)
    IN  IF previous = None
        THEN [branch |-> "first", result |-> None,
              persist |-> PersistAfter("first", fields, previous),
              read |-> Some(fields)]
        ELSE
        LET loop == DeltaLoop(fields, previous[1], 0, <<>>, 0)
        IN  IF loop.exit = "raised"
            THEN [branch |-> "raised", result |-> None, persist |-> previous,
                  read |-> Some(fields)]
            ELSE IF loop.exit = "reboot"
            THEN [branch |-> "reboot", result |-> None,
                  persist |-> PersistAfter("reboot", fields, previous),
                  read |-> Some(fields)]
            ELSE IF Len(loop.delta_fields) <= IDLE
            THEN \* delta_fields[3]: IndexError
                 [branch |-> "raised", result |-> None, persist |-> previous,
                  read |-> Some(fields)]
            ELSE
            LET idle_delta == loop.delta_fields[IDLE + 1]
                divisor    == idle_delta + loop.used_delta
                computed   == Ratio(loop.used_delta, divisor)
                result     == SanityGuard(computed)
                branch     == IF computed = None THEN "zero"
                              ELSE IF result = None THEN "range"
                              ELSE "ratio"
            IN  [branch |-> branch, result |-> result,
                 persist |-> PersistAfter(branch, fields, previous),
                 read |-> Some(fields)]

\* _get_cpu_usage(stat_file): input is a line of the file or IOError.
GetCpuUsage(input, previous) ==
    IF input.ok THEN Compute(input.stat, previous) ELSE OnReadError(previous)

(* --------------------------- Accumulator ------------------------------ *)

RECURSIVE GCD(_, _)
GCD(a, b) == IF b = 0 THEN a ELSE GCD(b, a % b)

\* Fractions <<n, d>> with d > 0, kept in lowest terms.
Norm(x) == LET g == GCD(x[1], x[2]) IN <<x[1] \div g, x[2] \div g>>

RatAdd(x, y) == Norm(<<x[1] * y[2] + y[1] * x[2], x[2] * y[2]>>)

RatScale(x, k) == Norm(<<x[1] * k, x[2]>>)

RatDiv(x, k) == Norm(<<x[1], x[2] * k>>)

\* Variant: the window is closed by the first call after the one opening it.
Crosses_Early(w, timestamp) == timestamp > w.start

\* The timestamp has advanced past the end of the open window w.
Crosses(w, timestamp) == timestamp > w.start + step_size

\* add(timestamp, ratio) on the open-window state (None before the first
\* call): the new state and the emitted point, if any.
Accumulate(state, timestamp, ratio) ==
    IF state = None
    THEN [state |-> Some([start |-> timestamp, sum |-> <<0, 1>>, last |-> timestamp]),
          step_data |-> None]
    ELSE
    LET w        == state[1]
        boundary == w.start + step_size
    IN  IF Crosses(w, timestamp)
        THEN LET closed == RatAdd(w.sum, RatScale(ratio, boundary - w.last))
             IN  [state |-> Some([start |-> boundary,
                                  sum   |-> RatScale(ratio, timestamp - boundary),
                                  last  |-> timestamp]),
                  step_data |-> Some([window_start |-> w.start,
                                      window_end   |-> boundary,
                                      ratio        |-> RatDiv(closed, step_size)])]
        ELSE [state |-> Some([start |-> w.start,
                              sum   |-> RatAdd(w.sum, RatScale(ratio, timestamp - w.last)),
                              last  |-> timestamp]),
              step_data |-> None]

(* ------------------------------ state --------------------------------- *)

VARIABLES
    persist,            \* self._persist[LAST_MESURE_KEY]: None or Some(fields)
    accumulator,        \* self._persist[ACCUMULATOR_KEY]: the open window
    cpu_usage_points,   \* self._cpu_usage_points
    now,                \* new_timestamp of the last tick
    accepted,           \* whether the broker accepts "cpu-usage" messages
    sent,               \* last message handed to broker.send_message
    tick,               \* what the last tick did: the branch taken, the result
                        \* returned, the fields read, whether the accumulator
                        \* was called, and the branch of the tick before it
    captured,           \* the fields read by the last tick that reached line 124
    emitted,            \* every point the accumulator returned to run(), in order
    returned,           \* every point create_message() returned, in order
    threads             \* where a run() and a send_message() in progress stand
                        \* when their statements interleave (SpecThreads)

vars ==
    <<persist, accumulator, cpu_usage_points, now, accepted, sent, tick, captured,
      emitted, returned, threads>>

\* No call in progress.  run_pc is "loaded" once line 66 has evaluated
\* self._cpu_usage_points and before it appends run_point to that list;
\* run_ref tells which list object that is: the one the attribute refers to
\* ("attr"), the one a send_message in progress took and replaced ("taken"),
\* or one no longer referred to by anything else ("orphan").  send_pc is
\* "taken" after line 43 and "reset" after line 44; send_list is the content
\* of the list cpu_points refers to once the attribute was given a new list.
NoThreads ==
    [run_pc |-> "idle", run_ref |-> "attr", run_point |-> None,
     send_pc |-> "idle", send_list |-> <<>>, send_urgent |-> FALSE]

\* fedwith: the arguments of the call of self._accumulate, if any;
\* step_data: what that call returned.
NoTick ==
    [branch |-> "none", result |-> None, read |-> None, fed |-> FALSE,
     before |-> "none", fedwith |-> None, step_data |-> None]

Init ==
    /\ persist = None
    /\ accumulator = None
    /\ cpu_usage_points = <<>>
    /\ now = 0
    /\ accepted \in BOOLEAN
    /\ sent = None
    /\ tick = NoTick
    /\ captured = None
    /\ emitted = <<>>
    /\ returned = <<>>
    /\ threads = NoThreads

(* ----------------------------- actions -------------------------------- *)

\* Variant: "if new_cpu_usage:", which takes a ratio of 0 for no ratio.
ShouldAccumulate_Truthy(new_cpu_usage) ==
    new_cpu_usage # None /\ new_cpu_usage[1] # 0

\* Line 62: if new_cpu_usage is not None.
ShouldAccumulate(new_cpu_usage) == new_cpu_usage # None

\* Variant: the completed step is never kept.
ShouldAppend_Never(step_data) == FALSE

\* Line 65: if step_data is not None.
ShouldAppend(step_data) == step_data # None

\* run(): one tick, taken at new_timestamp, reading input.
Run(new_timestamp, input) ==
    /\ new_timestamp > now
    /\ now' = new_timestamp
    /\ LET usage  == GetCpuUsage(input, persist)
           fed    == ShouldAccumulate(usage.result)
           step   == IF fed
                     THEN Accumulate(accumulator, new_timestamp, usage.result)
                     ELSE [state |-> accumulator, step_data |-> None]
           append == ShouldAppend(step.step_data)
       IN  /\ persist' = usage.persist
           /\ accumulator' = step.state
           /\ cpu_usage_points' =
                  IF append
                  THEN Append(cpu_usage_points, step.step_data[1])
                  ELSE cpu_usage_points
           /\ emitted' = IF append
                         THEN Append(emitted, step.step_data[1])
                         ELSE emitted
           /\ tick' = [branch |-> usage.branch, result |-> usage.result,
                       read |-> usage.read, fed |-> fed, before |-> tick.branch,
                       fedwith |-> IF fed THEN <<new_timestamp, usage.result>>
                                          ELSE None,
                       step_data |-> step.step_data]
           /\ captured' = IF usage.branch \in {"ioerror", "raised"}
                          THEN captured
                          ELSE usage.read
    /\ UNCHANGED <<accepted, sent, returned, threads>>

\* Variant: the list is handed out but not replaced by an empty one.
CreateMessage_KeepList(points) ==
    [message |-> [type |-> "cpu-usage", usages |-> points], points |-> points]

\* create_message(): the message and the emptied list.
CreateMessage(points) ==
    [message |-> [type |-> "cpu-usage", usages |-> points], points |-> <<>>]

\* Variant: the message is sent whatever it holds.
ShouldSend_Always(message) == TRUE

\* Line 49: if len(message["cpu-usages"]).
ShouldSend(message) == Len(message.usages) # 0

\* send_message(urgent)
SendMessage(urgent) ==
    LET created == CreateMessage(cpu_usage_points)
    IN  /\ cpu_usage_points' = created.points
        /\ returned' = returned \o created.message.usages
        /\ sent' = IF ShouldSend(created.message)
                   THEN Some([message |-> created.message, urgent |-> urgent])
                   ELSE sent

\* Variant: send_message is called without asking the broker.
Exchange_Unconditional(urgent) ==
    /\ SendMessage(urgent)
    /\ UNCHANGED <<persist, accumulator, now, accepted, tick, captured, emitted,
                   threads>>

\* exchange(urgent): broker.call_if_accepted("cpu-usage", send_message, urgent)
Exchange(urgent) ==
    /\ IF accepted THEN SendMessage(urgent)
                   ELSE UNCHANGED <<cpu_usage_points, sent, returned>>
    /\ UNCHANGED <<persist, accumulator, now, accepted, tick, captured, emitted,
                   threads>>

\* The server starts accepting "cpu-usage": the callback registered with
\* call_on_accepted runs send_message(True).
Accepted ==
    /\ ~accepted
    /\ accepted' = TRUE
    /\ SendMessage(TRUE)
    /\ UNCHANGED <<persist, accumulator, now, tick, captured, emitted, threads>>

\* The server stops accepting "cpu-usage".
Unaccepted ==
    /\ accepted
    /\ accepted' = FALSE
    /\ UNCHANGED <<persist, accumulator, cpu_usage_points, now, sent, tick, captured,
                   emitted, returned, threads>>

Transport ==
    \/ \E urgent \in BOOLEAN : Exchange(urgent)
    \/ Accepted
    \/ Unaccepted

\* Every line, short runs.
Next ==
    \/ \E t \in 1..MaxTime, input \in ReadOutcomes : Run(t, input)
    \/ Transport

Spec == Init /\ [][Next]_vars

\* Few lines, long runs.
NextWindow ==
    \/ \E t \in 1..MaxWindowTime, input \in WindowReadOutcomes : Run(t, input)
    \/ Transport

SpecWindow == Init /\ [][NextWindow]_vars

(* ------------------ run and send_message, statement by statement ------- *)

\* run() up to the evaluation of self._cpu_usage_points on line 66: as Run,
\* but the point is not appended yet.
RunCompute(new_timestamp, input) ==
    /\ threads.run_pc = "idle"
    /\ new_timestamp > now
    /\ now' = new_timestamp
    /\ LET usage  == GetCpuUsage(input, persist)
           fed    == ShouldAccumulate(usage.result)
           step   == IF fed
                     THEN Accumulate(accumulator, new_timestamp, usage.result)
                     ELSE [state |-> accumulator, step_data |-> None]
           append == ShouldAppend(step.step_data)
       IN  /\ persist' = usage.persist
           /\ accumulator' = step.state
           /\ emitted' = IF append
                         THEN Append(emitted, step.step_data[1])
                         ELSE emitted
           /\ tick' = [branch |-> usage.branch, result |-> usage.result,
                       read |-> usage.read, fed |-> fed, before |-> tick.branch,
                       fedwith |-> IF fed THEN <<new_timestamp, usage.result>>
                                          ELSE None,
                       step_data |-> step.step_data]
           /\ captured' = IF usage.branch \in {"ioerror", "raised"}
                          THEN captured
                          ELSE usage.read
           /\ threads' = IF append
                         THEN [threads EXCEPT !.run_pc = "loaded",
                                              !.run_ref = "attr",
                                              !.run_point = step.step_data]
                         ELSE threads
    /\ UNCHANGED <<cpu_usage_points, accepted, sent, returned>>

\* Line 66, the call of append on the list loaded before.
RunAppend ==
    /\ threads.run_pc = "loaded"
    /\ cpu_usage_points' =
          IF threads.run_ref = "attr"
          THEN Append(cpu_usage_points, threads.run_point[1])
          ELSE cpu_usage_points
    /\ threads' = [threads EXCEPT
                      !.run_pc = "idle",
                      !.run_ref = "attr",
                      !.run_point = None,
                      !.send_list = IF threads.run_ref = "taken"
                                    THEN Append(@, threads.run_point[1])
                                    ELSE @]
    /\ UNCHANGED <<persist, accumulator, now, accepted, sent, tick, captured,
                   emitted, returned>>

\* Line 43: cpu_points = self._cpu_usage_points, in a send_message called by
\* exchange (the type being accepted) or by the accepted callback.
SendTake(urgent) ==
    /\ threads.send_pc = "idle"
    /\ \/ accepted /\ accepted' = accepted
       \/ ~accepted /\ urgent /\ accepted' = TRUE
    /\ threads' = [threads EXCEPT !.send_pc = "taken", !.send_urgent = urgent]
    /\ UNCHANGED <<persist, accumulator, cpu_usage_points, now, sent, tick,
                   captured, emitted, returned>>

\* Line 44: self._cpu_usage_points = [].  The list taken is no longer the
\* attribute's; a run that loaded it before still refers to it.
SendReset ==
    /\ threads.send_pc = "taken"
    /\ cpu_usage_points' = CreateMessage(cpu_usage_points).points
    /\ threads' = [threads EXCEPT
                      !.send_pc = "reset",
                      !.send_list = CreateMessage(cpu_usage_points).message.usages,
                      !.run_ref = IF threads.run_pc = "loaded" /\ @ = "attr"
                                  THEN "taken" ELSE @]
    /\ UNCHANGED <<persist, accumulator, now, accepted, sent, tick, captured,
                   emitted, returned>>

\* Lines 45-50: the message is returned, and handed to the broker (which
\* stores it as it is then) if it holds a point.
SendFinish ==
    /\ threads.send_pc = "reset"
    /\ LET message == [type |-> "cpu-usage", usages |-> threads.send_list]
       IN  /\ returned' = returned \o message.usages
           /\ sent' = IF ShouldSend(message)
                      THEN Some([message |-> message, urgent |-> threads.send_urgent])
                      ELSE sent
    /\ threads' = [threads EXCEPT
                      !.send_pc = "idle",
                      !.send_list = <<>>,
                      !.send_urgent = FALSE,
                      !.run_ref = IF @ = "taken" THEN "orphan" ELSE @]
    /\ UNCHANGED <<persist, accumulator, cpu_usage_points, now, accepted, tick,
                   captured, emitted>>

\* Few lines, long runs, the statements of one run and one send_message
\* interleaved.
NextThreads ==
    \/ \E t \in 1..MaxWindowTime, input \in WindowReadOutcomes : RunCompute(t, input)
    \/ RunAppend
    \/ \E urgent \in BOOLEAN : SendTake(urgent)
    \/ SendReset
    \/ SendFinish
    \/ Unaccepted

SpecThreads == Init /\ [][NextThreads]_vars

(* ------------------------- vocabulary of the claims ------------------- *)

\* A step of run(): the only action that takes a new timestamp.
RunStep == now' # now

\* The read of this step's tick succeeded.
ReadOk == RunStep /\ tick'.read # None

\* A sample of the 10 counters.
IsRawSample(fields) == Len(fields) = NumFields

RECURSIVE SumOf(_, _)
SumOf(f, S) ==
    IF S = {} THEN 0
    ELSE LET k == CHOOSE x \in S : TRUE IN f[k] + SumOf(f, S \ {k})

DeltaOf(old, new) == [k \in 1..NumFields |-> new[k] - old[k]]

\* idle: the delta of field index 3; used: the sum of the 9 other deltas.
IdleOf(old, new) == DeltaOf(old, new)[IDLE + 1]

UsedOf(old, new) == SumOf(DeltaOf(old, new), (1..NumFields) \ {IDLE + 1})

NoFieldDecreases(old, new) == \A k \in 1..NumFields : new[k] >= old[k]

\* This step's tick reads the 10-counter sample `new` after the 10-counter
\* sample `old`, no field decreasing and the deltas summing to more than 0.
ValidSuccessor(old, new) ==
    /\ IsRawSample(old)
    /\ IsRawSample(new)
    /\ NoFieldDecreases(old, new)
    /\ UsedOf(old, new) + IdleOf(old, new) > 0

IsRatioOf(result, old, new) ==
    /\ result = <<UsedOf(old, new), UsedOf(old, new) + IdleOf(old, new)>>
    /\ 0 <= result[1]
    /\ result[1] <= result[2]

(* ------------------------------ claims -------------------------------- *)

\* C1: after every tick in which the stat file was read, the persisted
\* previous sample is the sample read on that tick.  Violated: a tick whose
\* computation raises (C6) has read a sample and persisted nothing.
C1_PersistedIsSampleRead == tick.read # None => persist = tick.read

\* C2: for a previous and a new sample of 10 counters in which no field
\* decreases and the deltas sum to more than 0, the tick returns the ratio
\* used / (used + idle), which lies in [0, 1].
C2_RatioOfDeltas ==
    [][(ReadOk /\ persist # None /\ ValidSuccessor(persist[1], tick'.read[1]))
        => IsRatioOf(tick'.result, persist[1], tick'.read[1])]_vars

\* A tick returned a ratio with used and idle time both positive, summed
\* over several used counters.
C2_Witness ==
    /\ tick.branch = "ratio"
    /\ IsRawSample(tick.read[1])
    /\ tick.result[1] > 1
    /\ tick.result[1] < tick.result[2]

\* C3: if a previous sample exists and some field of the new sample is
\* smaller than the same field of the previous one, the tick returns no
\* ratio and the new sample is persisted.
C3_ResetIsAbsentAndPersisted ==
    [][(ReadOk /\ persist # None
          /\ \E k \in 1..Len(tick'.read[1]) :
                /\ k <= Len(persist[1])
                /\ tick'.read[1][k] < persist[1][k])
        => (tick'.result = None /\ ~tick'.fed /\ persist' = tick'.read)]_vars

\* A tick detected a reset and the persisted sample is the one it read.
C3_Witness ==
    /\ tick.branch = "reboot"
    /\ tick.result = None
    /\ persist = tick.read
    /\ IsRawSample(persist[1])

\* C4: the first successful read with no previous sample returns no ratio,
\* does not feed the accumulator and persists the sample read.
C4_FirstReadIsAbsentAndPersisted ==
    [][(ReadOk /\ persist = None)
        => /\ tick'.result = None
           /\ ~tick'.fed
           /\ accumulator' = accumulator
           /\ cpu_usage_points' = cpu_usage_points
           /\ persist' = tick'.read]_vars

\* The first sample was read and is persisted.
C4_Witness ==
    /\ tick.branch = "first"
    /\ persist = tick.read
    /\ persist # None
    /\ accumulator = None

\* C5: if a previous sample exists and every delta of the new sample is 0,
\* the tick returns no ratio, does not raise, and persists the new sample.
C5_ZeroDivisorIsAbsent ==
    [][(ReadOk /\ persist # None
          /\ IsRawSample(persist[1]) /\ IsRawSample(tick'.read[1])
          /\ \A k \in 1..NumFields : tick'.read[1][k] = persist[1][k])
        => /\ tick'.result = None
           /\ ~tick'.fed
           /\ tick'.branch # "raised"
           /\ persist' = tick'.read]_vars

\* A tick found a divisor of 0 on a non-zero sample.
C5_Witness ==
    /\ tick.branch = "zero"
    /\ persist = tick.read
    /\ IsRawSample(persist[1])
    /\ \E k \in 1..NumFields : persist[1][k] > 0

\* C6: the ratio computation never raises, whatever line is read and
\* whatever sample is persisted.  Violated: IndexError on a line with fewer
\* than 4 fields, or with more fields than the persisted sample.
C6_NeverRaises == tick.branch # "raised"

\* C7: a tick whose read fails changes neither the persisted sample, nor the
\* accumulator, nor the points waiting to be sent, and feeds no ratio.
C7_FailedReadChangesNothing ==
    [][(RunStep /\ tick'.branch = "ioerror")
        => /\ persist' = persist
           /\ accumulator' = accumulator
           /\ cpu_usage_points' = cpu_usage_points
           /\ sent' = sent
           /\ tick'.result = None
           /\ ~tick'.fed]_vars

\* A read failed while a sample was persisted, a window was open and a point
\* was waiting to be sent.
C7_Witness ==
    /\ tick.branch = "ioerror"
    /\ persist # None
    /\ accumulator # None
    /\ cpu_usage_points # <<>>

\* C8 as stated: whenever a tick yields a ratio, the previous sample it used
\* is the sample read on the tick just before it.  Violated: after a tick
\* whose read failed, the next ratio is computed against the sample of the
\* tick before the failed one.
C8_PreviousIsOneTickOld ==
    [][(RunStep /\ tick'.result # None) => persist = tick.read]_vars

\* C8 amended: whenever a tick yields a ratio, the previous sample it used is
\* the sample read on the most recent earlier tick that reached the persisting
\* line 124; ticks in between whose read failed or that raised left it in
\* place.
C8_PreviousIsLastCaptured ==
    [][(RunStep /\ tick'.result # None) => persist = captured]_vars

\* A ratio was computed on the tick after a failed read.
C8_Witness ==
    /\ tick.branch = "ratio"
    /\ tick.before = "ioerror"

\* C9: a tick that returned no ratio because of a reset, a zero divisor or an
\* out-of-range result does not block the next one: if the next tick reads a
\* sample no field of which is below that tick's sample, with a positive sum
\* of deltas, it yields the ratio of the deltas against that tick's sample.
C9_AbsentTickDoesNotBlock ==
    [][(ReadOk /\ tick.branch \in {"reboot", "zero", "range"}
          /\ ValidSuccessor(tick.read[1], tick'.read[1]))
        => IsRatioOf(tick'.result, tick.read[1], tick'.read[1])]_vars

\* A ratio was computed on the tick after a reset or a zero divisor.
C9_Witness ==
    /\ tick.branch = "ratio"
    /\ tick.before \in {"reboot", "zero"}
    /\ IsRawSample(tick.read[1])

\* C10: the first successful read persists a sample, and once a sample is
\* persisted no tick and no drain makes it absent again.
C10_PreviousSampleIsOneWay ==
    [][/\ persist # None => persist' # None
       /\ (ReadOk /\ persist = None) => persist' # None]_vars

\* A sample is still persisted after a message was sent and a tick detected
\* a reset.
C10_Witness ==
    /\ persist # None
    /\ sent # None
    /\ tick.branch = "reboot"

\* A step that calls create_message: exchange while the type is accepted, or
\* the callback run when the type becomes accepted.  No tick is taken and the
\* type is accepted afterwards.
DrainStep == now' = now /\ accepted'

NoDuplicates(points) ==
    \A i \in 1..Len(points), j \in 1..Len(points) :
        points[i] = points[j] => i = j

\* C11: a drain empties the list and returns exactly the points appended
\* since the previous drain, in their order; a drain right after a drain
\* returns nothing; every point emitted is waiting in the list or was
\* returned by exactly one drain.
C11_DrainReturnsPointsOnce ==
    [][/\ DrainStep =>
            /\ cpu_usage_points' = <<>>
            /\ returned' = returned \o cpu_usage_points
       /\ (DrainStep /\ cpu_usage_points = <<>>) => returned' = returned
       /\ emitted' = returned' \o cpu_usage_points'
       /\ NoDuplicates(returned')]_vars

\* Two points were emitted; the first was returned by a drain, the second is
\* waiting.
C11_Witness ==
    /\ Len(emitted) = 2
    /\ returned = <<emitted[1]>>
    /\ cpu_usage_points = <<emitted[2]>>

\* C12: no message handed to broker.send_message has an empty cpu-usages.
C12_NoEmptyMessage ==
    sent # None => Len(sent[1].message.usages) >= 1

\* A message was sent, and a later drain found the list empty.
C12_Witness ==
    /\ sent # None
    /\ accepted
    /\ cpu_usage_points = <<>>
    /\ returned = emitted
    /\ tick.branch = "ioerror"

\* C13: the list is drained and a message is sent only while the type is
\* accepted; while it is not, an exchange leaves the points in the list.
C13_DrainOnlyWhenAccepted ==
    [][(\/ Len(cpu_usage_points') < Len(cpu_usage_points)
        \/ returned' # returned
        \/ sent' # sent) => accepted']_vars

\* A point is waiting while the type is not accepted.
C13_Witness ==
    /\ ~accepted
    /\ cpu_usage_points # <<>>
    /\ returned # <<>>

\* C16: the accumulator is called exactly on the ticks that have a ratio,
\* with the timestamp and the ratio of the tick; a tick without a ratio
\* changes neither the accumulator nor the list; a tick appends the point the
\* accumulator returned, if it returned one, and nothing else.
C16_FedExactlyWithRatio ==
    [][RunStep =>
        /\ tick'.fed <=> tick'.result # None
        /\ tick'.fed => tick'.fedwith = <<now', tick'.result>>
        /\ ~tick'.fed => tick'.step_data = None
        /\ tick'.result = None =>
              /\ accumulator' = accumulator
              /\ cpu_usage_points' = cpu_usage_points
        /\ IF tick'.step_data # None
           THEN cpu_usage_points' = Append(cpu_usage_points, tick'.step_data[1])
           ELSE cpu_usage_points' = cpu_usage_points]_vars

\* A tick with a ratio of 0 was fed to the accumulator, which returned a
\* point that is now waiting.
C16_Witness ==
    /\ tick.fed
    /\ tick.result[1] = 0
    /\ tick.step_data # None
    /\ cpu_usage_points # <<>>

\* C17: the sanity guard never fires: every ratio computed, and so every
\* ratio fed to the accumulator, lies in [0, 1].
C17_GuardNeverFires ==
    /\ tick.branch # "range"
    /\ tick.result # None => (0 <= tick.result[1] /\ tick.result[1] <= tick.result[2])
    /\ tick.fed => (0 <= tick.fedwith[2][1] /\ tick.fedwith[2][1] <= tick.fedwith[2][2])

\* A ratio strictly between 0 and 1 was computed and fed.
C17_Witness ==
    /\ tick.branch = "ratio"
    /\ tick.fed
    /\ 0 < tick.result[1]
    /\ tick.result[1] < tick.result[2]

\* The start of the first window, and the number of window boundaries the
\* fed timestamps have advanced past.
FirstWindowStart ==
    IF emitted = <<>> THEN accumulator[1].start ELSE emitted[1].window_start

BoundariesCrossed ==
    Cardinality({ k \in 1..MaxWindowTime + 1 :
                    FirstWindowStart + k * step_size < accumulator[1].last })

\* C15 as stated: no point is emitted before step_size has elapsed since the
\* window opened, and there is exactly one point per boundary crossed.
\* Violated: a call whose timestamp is two boundaries past the open window
\* returns the one point of that window.
C15_OnePointPerBoundary ==
    accumulator # None =>
        /\ Len(emitted) = BoundariesCrossed
        /\ \A i \in 1..Len(emitted) :
              emitted[i].window_end - emitted[i].window_start >= step_size

\* C15 amended: no point is emitted before step_size has elapsed since the
\* open window started; a call returns a point exactly when its timestamp is
\* past the end of the open window, and the point is that window's; windows
\* are emitted in order, each once; the points emitted never outnumber the
\* boundaries crossed, and fall short of them after a call that jumped over
\* more than one boundary.
C15_OnePointPerCrossingCall ==
    [][(RunStep /\ tick'.fed) =>
        /\ accumulator = None => tick'.step_data = None
        /\ accumulator # None =>
              LET w == accumulator[1]
              IN  /\ tick'.step_data # None <=> now' > w.start + step_size
                  /\ tick'.step_data # None =>
                        /\ tick'.step_data[1].window_start = w.start
                        /\ tick'.step_data[1].window_end = w.start + step_size
                        /\ accumulator'[1].start = w.start + step_size
                  /\ tick'.step_data = None => accumulator'[1].start = w.start
        /\ \A i \in 1..Len(emitted') - 1 :
              emitted'[i + 1].window_start = emitted'[i].window_end
        /\ Len(emitted') <= Cardinality({ k \in 1..MaxWindowTime + 1 :
              (IF emitted' = <<>> THEN accumulator'[1].start
                                  ELSE emitted'[1].window_start) + k * step_size
                 < accumulator'[1].last })]_vars

\* A call jumped over two boundaries and returned the point of the open
\* window only.
C15_Witness ==
    /\ tick.step_data # None
    /\ accumulator[1].last > accumulator[1].start + step_size
    /\ Len(emitted) < BoundariesCrossed

PointsOf(points) == { points[i] : i \in 1..Len(points) }

\* C14: a drain may run while a tick is in progress: once both have ended,
\* every point the accumulator returned is waiting in the list or is in
\* exactly one message sent; none is lost, none sent twice.  Violated: run
\* evaluates self._cpu_usage_points, send_message replaces that list by a
\* new one, and run appends its point to the list replaced.
C14_NoPointLostOrSentTwice ==
    (threads.run_pc = "idle" /\ threads.send_pc = "idle") =>
        /\ PointsOf(emitted) = PointsOf(returned) \cup PointsOf(cpu_usage_points)
        /\ Len(emitted) = Len(returned) + Len(cpu_usage_points)

====
